---- MODULE Spec2Model ----
(***************************************************************************)
(* The comparison-table builder (App.tsx): the component's state, its      *)
(* event handlers and the asynchronous generation request, as a state      *)
(* machine.  The component is rendered anew between two events, so a       *)
(* handler reads the state its predecessor left; the functional updaters  *)
(* passed to setTableData are operators on tables.  A render that throws   *)
(* leaves no control to fire: the handlers are guarded by Renderable.      *)
(* JavaScript arrays are sequences read with 0-based indices through the   *)
(* Arr* operators, which keep the language's behaviour on out-of-range     *)
(* indices (reads give undefined, writes extend the array with holes).     *)
(***************************************************************************)
EXTENDS Integers, Sequences, FiniteSets, TLC

\* ---------------------------------------------------------------- bounds
\* changes the handlers may make to the table
MaxOps == 2
\* completion-service calls awaited at once
MaxRequests == 2

\* ----------------------------------------------------- JavaScript values
\* draggedColumn's null
Null == -1
\* undefined, as a header, a cell's value or a cell's type
Undef == "undefined"
\* an array hole among headers
Hole == "<hole>"
\* tableData.headers when it is no array (undefined)
NotArray == <<"<not an array>">>
\* strings that are parsed are sequences of characters
EmptyStr == <<>>
UndefStr == <<Undef>>
\* undefined / a hole where a cell object is expected
UndefCell == [value |-> <<"<no cell>">>, type |-> "<no cell>"]
HoleCell == [value |-> <<"<hole>">>, type |-> "<hole>"]
DefaultCell == [value |-> EmptyStr, type |-> "text"]

\* arr[i] read
ArrGet(arr, i, u, h) ==
  IF i >= 0 /\ i < Len(arr) /\ arr[i + 1] # h THEN arr[i + 1] ELSE u

\* arr[i] = v
ArrSet(arr, i, v, h) ==
  IF i < Len(arr)
  THEN [arr EXCEPT ![i + 1] = v]
  ELSE arr \o [k \in 1..(i - Len(arr)) |-> h] \o <<v>>

\* [...arr]: a dense copy, holes read as undefined
ArrSpread(arr, u, h) ==
  [k \in 1..Len(arr) |-> IF arr[k] = h THEN u ELSE arr[k]]

\* arr.filter((_, i) => i !== index): holes are skipped
ArrFilterIndex(arr, index, h) ==
  LET keep == {k \in 1..Len(arr) : k - 1 # index /\ arr[k] # h}
      nth(n) == CHOOSE k \in keep : Cardinality({m \in keep : m <= k}) = n
  IN [n \in 1..Cardinality(keep) |-> arr[nth(n)]]

\* [arr[a], arr[b]] = [arr[b], arr[a]]
ArrSwap(arr, a, b, u, h) ==
  LET t0 == ArrGet(arr, b, u, h)
      t1 == ArrGet(arr, a, u, h)
  IN ArrSet(ArrSet(arr, a, t0, h), b, t1, h)

\* ------------------------------------------------------------------ state
\* the component's state, and the completion-service calls awaited
VARIABLES tableData, isLoading, productDescription, draggedColumn, requests
\* the changes handlers made to the table so far, the drag gesture being
\* followed and the last column total computed
VARIABLES ops, gesture, total

pvars == <<tableData, isLoading, productDescription, draggedColumn, requests>>
vars == <<tableData, isLoading, productDescription, draggedColumn, requests,
          ops, gesture, total>>

InitialTable ==
  [headers |-> <<"Feature", "Option 1", "Option 2">>,
   rows |-> << <<DefaultCell, DefaultCell, DefaultCell>> >>]

\* no drag gesture is being followed
NoGesture == [active |-> FALSE, from |-> Null, table |-> InitialTable]
\* computeColumnTotal's null: nothing is shown
NullTotal == [shown |-> FALSE, text |-> EmptyStr]
\* no total computed yet
NoTotal == [computed |-> FALSE, colIndex |-> Null, result |-> NullTotal]

Init ==
  /\ tableData = InitialTable
  /\ isLoading = FALSE
  /\ productDescription = ""
  /\ draggedColumn = Null
  /\ requests = 0
  /\ total = NoTotal
  /\ gesture = NoGesture
  /\ ops = 0

\* ----------------------------------------------------------------- render
\* the column positions the header row renders a <th> for (map skips holes)
RenderedCols(t) == {i \in 0..(Len(t.headers) - 1) : t.headers[i + 1] # Hole}

RECURSIVE MaxOf(_)
MaxOf(S) ==
  IF S = {} THEN 0
  ELSE LET x == CHOOSE y \in S : TRUE
           m == MaxOf(S \ {x})
       IN IF x > m THEN x ELSE m

\* the number of column positions the render shows: of the header row or
\* of a longer row
Width(t) == MaxOf({Len(t.headers)} \cup {Len(t.rows[r]) : r \in DOMAIN t.rows})

\* the render completes: headers.map needs an array, row.map reads
\* cell.value of every element, and the totals row reads row[c].type of
\* every row for every rendered column c >= 1
Renderable(t) ==
  /\ t.headers # NotArray
  /\ \A r \in DOMAIN t.rows :
       /\ \A k \in DOMAIN t.rows[r] : t.rows[r][k] # UndefCell
       /\ \A c \in RenderedCols(t) :
            c >= 1 => ArrGet(t.rows[r], c, UndefCell, HoleCell) # UndefCell

\* -------------------------------------------------- setTableData updaters
OptionLabel(n) == "Option " \o ToString(n)

addColumnUpdater(prev) ==
  [headers |-> ArrSpread(prev.headers, Undef, Hole) \o <<OptionLabel(Len(prev.headers))>>,
   rows |-> [r \in DOMAIN prev.rows |->
               ArrSpread(prev.rows[r], UndefCell, HoleCell) \o <<DefaultCell>>]]

addRowUpdater(prev) ==
  [prev EXCEPT !.rows = @ \o << [k \in 1..Len(prev.headers) |-> DefaultCell] >>]

updateHeaderUpdater(prev, index, value) ==
  [prev EXCEPT !.headers =
     [k \in DOMAIN @ |-> IF @[k] # Hole /\ k - 1 = index THEN value ELSE @[k]]]

\* { ...cell, value }
WithValue(cell, value) ==
  IF cell = UndefCell THEN [value |-> value, type |-> Undef]
  ELSE [cell EXCEPT !.value = value]

\* { ...cell, type }
WithType(cell, type) ==
  IF cell = UndefCell THEN [value |-> UndefStr, type |-> type]
  ELSE [cell EXCEPT !.type = type]

\* the cell is replaced by { value, type: 'text' } instead of being spread
updateCellResetsType(prev, rowIndex, colIndex, value) ==
  [prev EXCEPT !.rows =
     [i \in DOMAIN @ |->
        IF i - 1 = rowIndex
        THEN [j \in DOMAIN @[i] |->
                IF @[i][j] # HoleCell /\ j - 1 = colIndex
                THEN [value |-> value, type |-> "text"] ELSE @[i][j]]
        ELSE @[i]]]

updateCellUpdater(prev, rowIndex, colIndex, value) ==
  [prev EXCEPT !.rows =
     [i \in DOMAIN @ |->
        IF i - 1 = rowIndex
        THEN [j \in DOMAIN @[i] |->
                IF @[i][j] # HoleCell /\ j - 1 = colIndex
                THEN WithValue(@[i][j], value) ELSE @[i][j]]
        ELSE @[i]]]

updateCellTypeUpdater(prev, rowIndex, colIndex, type) ==
  [prev EXCEPT !.rows =
     [i \in DOMAIN @ |->
        IF i - 1 = rowIndex
        THEN [j \in DOMAIN @[i] |->
                IF @[i][j] # HoleCell /\ j - 1 = colIndex
                THEN WithType(@[i][j], type) ELSE @[i][j]]
        ELSE @[i]]]

deleteRowUpdater(prev, index) ==
  [prev EXCEPT !.rows = ArrFilterIndex(@, index, <<HoleCell>>)]

deleteColumnUpdater(prev, index) ==
  [headers |-> ArrFilterIndex(prev.headers, index, Hole),
   rows |-> [r \in DOMAIN prev.rows |-> ArrFilterIndex(prev.rows[r], index, HoleCell)]]

\* the minimum-width guard of deleteColumn, read from the rendered table
deleteColumnRefused(t) == Len(t.headers) <= 2

\* the swap of handleDragOver: dragged is the draggedColumn of the render
dragOverUpdater(prev, dragged, index) ==
  [headers |-> ArrSwap(ArrSpread(prev.headers, Undef, Hole), dragged, index, Undef, Hole),
   rows |-> [r \in DOMAIN prev.rows |->
               ArrSwap(ArrSpread(prev.rows[r], UndefCell, HoleCell),
                       dragged, index, UndefCell, HoleCell)]]

\* ------------------------------------------------------------- generation
\* rows of a parsed payload
GoodRow == [feature |-> <<"P">>, type |-> "currency", vendor1 |-> <<"9">>, vendor2 |-> <<"9">>]
RowNoType == [feature |-> <<"P">>, type |-> Undef, vendor1 |-> <<"9">>, vendor2 |-> <<"9">>]
\* data.rows when the payload has no rows field
NoRows == << [feature |-> <<"<no rows>">>, type |-> "<no rows>",
              vendor1 |-> <<"<no rows>">>, vendor2 |-> <<"<no rows>">>] >>
NoData == [headers |-> NotArray, rows |-> NoRows]

Payloads ==
  { [headers |-> <<"Feature", "Vendor 1", "Vendor 2">>, rows |-> <<GoodRow>>],
    [headers |-> <<"Feature", "Vendor 1">>, rows |-> <<GoodRow>>],
    [headers |-> <<"Feature">>, rows |-> <<GoodRow>>],
    [headers |-> NotArray, rows |-> <<GoodRow>>],
    [headers |-> <<"Feature", "Vendor 1", "Vendor 2">>, rows |-> <<RowNoType>>],
    [headers |-> <<"Feature", "Vendor 1", "Vendor 2">>, rows |-> NoRows] }

\* what the awaited call yields: a rejection, no content, or a text that
\* JSON.parse either rejects or turns into data
Responses ==
  { [tag |-> "reject", data |-> NoData],
    [tag |-> "empty", data |-> NoData],
    [tag |-> "malformed", data |-> NoData] }
  \cup { [tag |-> "json", data |-> d] : d \in Payloads }

\* the try block throws: the call rejects, JSON.parse throws, or data.rows
\* is undefined and has no map
Throws(resp) ==
  \/ resp.tag \in {"reject", "malformed"}
  \/ resp.tag = "json" /\ resp.data.rows = NoRows

\* the object handed to setTableData
TableFromPayload(data) ==
  [headers |-> data.headers,
   rows |-> [k \in DOMAIN data.rows |->
               << [value |-> data.rows[k].feature, type |-> "text"],
                  [value |-> data.rows[k].vendor1, type |-> data.rows[k].type],
                  [value |-> data.rows[k].vendor2, type |-> data.rows[k].type] >>]]

\* the table after the try / catch
TableAfterResponse(prev, resp) ==
  IF resp.tag = "json" /\ ~Throws(resp) THEN TableFromPayload(resp.data) ELSE prev

\* the flag is cleared at the end of the try block only, not in a finally
LoadingKeptOnError(loading, resp) == IF Throws(resp) THEN loading ELSE FALSE

\* the flag after the try / catch / finally
LoadingAfterResponse(loading, resp) == FALSE

\* the button is never disabled
GenerateNeverDisabled(loading) == FALSE

\* the Generate button is disabled while isLoading
GenerateDisabled(loading) == loading

\* ---------------------------------------------------------------- actions
\* each handler, as what it does to the component's state
Descriptions == {"", "laptops"}
HeaderTexts == {"H"}
CellTexts == { <<"5">> }
CellTypes == {"number"}

setProductDescription(text) ==
  /\ Renderable(tableData)
  /\ productDescription' = text
  /\ UNCHANGED <<tableData, isLoading, draggedColumn, requests>>

generateComparison ==
  /\ Renderable(tableData)
  /\ ~GenerateDisabled(isLoading)
  /\ IF productDescription = ""
     THEN UNCHANGED <<isLoading, requests>>
     ELSE /\ requests < MaxRequests
          /\ isLoading' = TRUE
          /\ requests' = requests + 1
  /\ UNCHANGED <<tableData, productDescription, draggedColumn>>

\* the continuation of generateComparison after the await
completion(resp) ==
  /\ requests > 0
  /\ requests' = requests - 1
  /\ tableData' = TableAfterResponse(tableData, resp)
  /\ isLoading' = LoadingAfterResponse(isLoading, resp)
  /\ UNCHANGED <<productDescription, draggedColumn>>

addColumn ==
  /\ Renderable(tableData)
  /\ tableData' = addColumnUpdater(tableData)
  /\ UNCHANGED <<isLoading, productDescription, draggedColumn, requests>>

addRow ==
  /\ Renderable(tableData)
  /\ tableData' = addRowUpdater(tableData)
  /\ UNCHANGED <<isLoading, productDescription, draggedColumn, requests>>

updateHeader(index, value) ==
  /\ Renderable(tableData)
  /\ index \in RenderedCols(tableData)
  /\ tableData' = updateHeaderUpdater(tableData, index, value)
  /\ UNCHANGED <<isLoading, productDescription, draggedColumn, requests>>

updateCell(rowIndex, colIndex, value) ==
  /\ Renderable(tableData)
  /\ tableData' = updateCellUpdater(tableData, rowIndex, colIndex, value)
  /\ UNCHANGED <<isLoading, productDescription, draggedColumn, requests>>

\* the kind selector is rendered for the cells with colIndex > 0
updateCellType(rowIndex, colIndex, type) ==
  /\ Renderable(tableData)
  /\ colIndex # 0
  /\ tableData' = updateCellTypeUpdater(tableData, rowIndex, colIndex, type)
  /\ UNCHANGED <<isLoading, productDescription, draggedColumn, requests>>

deleteRow(index) ==
  /\ Renderable(tableData)
  /\ tableData' = deleteRowUpdater(tableData, index)
  /\ UNCHANGED <<isLoading, productDescription, draggedColumn, requests>>

\* the delete button is rendered for the columns with index > 0
deleteColumn(index) ==
  /\ Renderable(tableData)
  /\ index \in RenderedCols(tableData) /\ index > 0
  /\ tableData' = IF deleteColumnRefused(tableData) THEN tableData
                  ELSE deleteColumnUpdater(tableData, index)
  /\ UNCHANGED <<isLoading, productDescription, draggedColumn, requests>>

\* onDragStart of a header cell; the cells with index > 0 are draggable
handleDragStart(index) ==
  /\ Renderable(tableData)
  /\ index \in RenderedCols(tableData) /\ index > 0
  /\ draggedColumn' = index
  /\ UNCHANGED <<tableData, isLoading, productDescription, requests>>

\* the swap is made but setDraggedColumn(index) is left out
handleDragOverKeepsDragged(index) ==
  /\ Renderable(tableData)
  /\ index \in RenderedCols(tableData)
  /\ IF draggedColumn = Null \/ draggedColumn = index
     THEN UNCHANGED tableData
     ELSE tableData' = dragOverUpdater(tableData, draggedColumn, index)
  /\ UNCHANGED <<draggedColumn, isLoading, productDescription, requests>>

\* onDragOver of a header cell; every header cell has it
handleDragOver(index) ==
  /\ Renderable(tableData)
  /\ index \in RenderedCols(tableData)
  /\ IF draggedColumn = Null \/ draggedColumn = index
     THEN UNCHANGED <<tableData, draggedColumn>>
     ELSE /\ tableData' = dragOverUpdater(tableData, draggedColumn, index)
          /\ draggedColumn' = index
  /\ UNCHANGED <<isLoading, productDescription, requests>>

\* ---------------------------------------------------------- the component
\* the indices a handler is called with: those of the table and the ones
\* next to them, which are out of range
RowIndices == -1..Len(tableData.rows)
ColIndices ==
  -1..(IF tableData.headers = NotArray THEN 0 ELSE Width(tableData))

\* a handler's change of the table counts against MaxOps
TableOp ==
  /\ ops' = IF tableData' # tableData THEN ops + 1 ELSE ops
  /\ ops' <= MaxOps
  /\ UNCHANGED <<gesture, total>>
NoTableOp == UNCHANGED <<ops, gesture, total>>

Next ==
  \/ \E text \in Descriptions : setProductDescription(text) /\ NoTableOp
  \/ generateComparison /\ NoTableOp
  \/ \E resp \in Responses : completion(resp) /\ NoTableOp
  \/ addColumn /\ TableOp
  \/ addRow /\ TableOp
  \/ \E index \in ColIndices, value \in HeaderTexts : updateHeader(index, value) /\ TableOp
  \/ \E rowIndex \in RowIndices, colIndex \in ColIndices, value \in CellTexts :
       updateCell(rowIndex, colIndex, value) /\ TableOp
  \/ \E rowIndex \in RowIndices, colIndex \in ColIndices, type \in CellTypes :
       updateCellType(rowIndex, colIndex, type) /\ TableOp
  \/ \E index \in RowIndices : deleteRow(index) /\ TableOp
  \/ \E index \in ColIndices : deleteColumn(index) /\ TableOp
  \/ \E index \in ColIndices : handleDragStart(index) /\ NoTableOp
  \/ \E index \in ColIndices : handleDragOver(index) /\ TableOp

Spec == Init /\ [][Next]_vars

\* ------------------------------------------------------------ column total
Digits == {"0", "1", "2", "3", "4", "5", "6", "7", "8", "9"}
DigitValue(ch) ==
  CASE ch = "0" -> 0 [] ch = "1" -> 1 [] ch = "2" -> 2 [] ch = "3" -> 3
    [] ch = "4" -> 4 [] ch = "5" -> 5 [] ch = "6" -> 6 [] ch = "7" -> 7
    [] ch = "8" -> 8 [] ch = "9" -> 9
DigitChar(d) ==
  CASE d = 0 -> "0" [] d = 1 -> "1" [] d = 2 -> "2" [] d = 3 -> "3"
    [] d = 4 -> "4" [] d = 5 -> "5" [] d = 6 -> "6" [] d = 7 -> "7"
    [] d = 8 -> "8" [] d = 9 -> "9"

NaN == [nan |-> TRUE, num |-> 0]

RECURSIVE SkipSpaces(_)
SkipSpaces(str) ==
  IF str # <<>> /\ Head(str) = " " THEN SkipSpaces(Tail(str)) ELSE str

\* the value of the longest prefix of digits, read after acc
RECURSIVE DigitRun(_, _)
DigitRun(str, acc) ==
  IF str # <<>> /\ Head(str) \in Digits
  THEN DigitRun(Tail(str), 10 * acc + DigitValue(Head(str)))
  ELSE acc

\* parseFloat on the strings without a fraction or an exponent: leading
\* blanks, an optional sign, then the longest run of digits; NaN when no
\* digit stands there
parseFloat(str) ==
  LET s1 == SkipSpaces(str)
      neg == s1 # <<>> /\ Head(s1) = "-"
      s2 == IF s1 # <<>> /\ Head(s1) \in {"-", "+"} THEN Tail(s1) ELSE s1
  IN IF s2 = <<>> \/ Head(s2) \notin Digits THEN NaN
     ELSE [nan |-> FALSE, num |-> IF neg THEN 0 - DigitRun(s2, 0) ELSE DigitRun(s2, 0)]

\* the digits of n >= 0, grouped in threes from the right
RECURSIVE Grouped(_)
Grouped(n) ==
  IF n < 1000
  THEN IF n < 10 THEN <<DigitChar(n)>>
       ELSE IF n < 100 THEN <<DigitChar(n \div 10), DigitChar(n % 10)>>
       ELSE <<DigitChar(n \div 100), DigitChar((n \div 10) % 10), DigitChar(n % 10)>>
  ELSE Grouped(n \div 1000) \o <<",">> \o
       <<DigitChar((n \div 100) % 10), DigitChar((n \div 10) % 10), DigitChar(n % 10)>>

\* n.toLocaleString() of a whole number, en-US
FormatNumber(n) ==
  IF n < 0 THEN <<"-">> \o Grouped(0 - n) ELSE Grouped(n)

\* n.toLocaleString('en-US', { style: 'currency', currency: 'USD' })
FormatCurrency(n) ==
  (IF n < 0 THEN <<"-", "$">> \o Grouped(0 - n) ELSE <<"$">> \o Grouped(n))
    \o <<".", "0", "0">>

HasNumericType(cell) == cell.type = "number" \/ cell.type = "currency"
IsNumber(parsed) == ~parsed.nan

RECURSIVE SumFrom(_, _)
SumFrom(nums, sum) ==
  IF nums = <<>> THEN sum ELSE SumFrom(Tail(nums), sum + Head(nums).num)

\* the type property of what rows.find returns: a row, which is an array
\* and has no such property
FoundRowType(row) == Undef

computeColumnTotal(t, colIndex) ==
  LET column == [r \in DOMAIN t.rows |-> ArrGet(t.rows[r], colIndex, UndefCell, HoleCell)]
      typed == SelectSeq(column, HasNumericType)
      parsed == [k \in DOMAIN typed |-> parseFloat(typed[k].value)]
      numbers == SelectSeq(parsed, IsNumber)
      sum == SumFrom(numbers, 0)
      found == SelectSeq(t.rows, LAMBDA row :
                 LET cell == ArrGet(row, colIndex, UndefCell, HoleCell)
                 IN HasNumericType(cell) /\ IsNumber(parseFloat(cell.value)))
      firstType == IF found = <<>> THEN Undef ELSE FoundRowType(Head(found))
  IN IF Len(numbers) = 0 THEN NullTotal
     ELSE [shown |-> TRUE,
           text |-> IF firstType = "currency"
                    THEN FormatCurrency(sum) ELSE FormatNumber(sum)]

\* the totals row of a render calls it for a column after the first
renderTotal(colIndex) ==
  /\ Renderable(tableData)
  /\ colIndex \in RenderedCols(tableData) /\ colIndex >= 1
  /\ total' = [computed |-> TRUE, colIndex |-> colIndex,
               result |-> computeColumnTotal(tableData, colIndex)]
  /\ UNCHANGED <<tableData, isLoading, productDescription, draggedColumn, requests,
                 ops, gesture>>

\* tables of one data column, of every kind of cell
MaxTotalRows == 2
TotalTexts ==
  { <<>>, <<"a">>, <<"7">>, <<"2", "5">>, <<"-", "3">>, <<" ", "4">>, <<"6", "a">>,
    <<"1", "0", "0", "0">> }
TotalCells == [value : TotalTexts, type : {"text", "number", "currency"}]
TotalTables ==
  { [headers |-> <<"Feature", "Option 1">>,
     rows |-> [r \in DOMAIN cells |-> <<DefaultCell, cells[r]>>]] :
      cells \in UNION { [1..m -> TotalCells] : m \in 0..MaxTotalRows } }

InitTotal ==
  /\ tableData \in TotalTables
  /\ isLoading = FALSE
  /\ productDescription = ""
  /\ draggedColumn = Null
  /\ requests = 0
  /\ ops = 0
  /\ gesture = NoGesture
  /\ total = NoTotal

NextTotal == \E colIndex \in ColIndices : renderTotal(colIndex)

SpecTotal == InitTotal /\ [][NextTotal]_vars

\* ------------------------------------------------------------ drag gesture
\* the gesture goes on: the pointer enters the column next to the dragged
\* one, moving on in the direction it took from the column it started at
NextInGesture(index) ==
  /\ gesture.active
  /\ \/ draggedColumn >= gesture.from /\ index = draggedColumn + 1
     \/ draggedColumn <= gesture.from /\ index = draggedColumn - 1

\* a gesture starts at handleDragStart and is followed over the
\* handleDragOver calls that enter the next column
dragStartStep(index) ==
  /\ handleDragStart(index)
  /\ gesture' = [active |-> TRUE, from |-> index, table |-> tableData]
  /\ UNCHANGED <<ops, total>>

dragOverStep(index) ==
  /\ handleDragOver(index)
  /\ gesture' = IF draggedColumn = Null \/ draggedColumn = index THEN gesture
                ELSE IF NextInGesture(index) THEN gesture
                ELSE NoGesture
  /\ UNCHANGED <<ops, total>>

\* tables of distinct columns, header and cells named after the column
MaxDragCols == 4
MaxDragRows == 1
ColumnName(k) == "c" \o ToString(k)
DragTables ==
  { [headers |-> [k \in 1..n |-> ColumnName(k - 1)],
     rows |-> [r \in 1..m |-> [k \in 1..n |->
                 [value |-> <<ColumnName(k - 1), ToString(r - 1)>>, type |-> "text"]]]] :
      n \in 2..MaxDragCols, m \in 0..MaxDragRows }

InitDrag ==
  /\ tableData \in DragTables
  /\ isLoading = FALSE
  /\ productDescription = ""
  /\ draggedColumn = Null
  /\ requests = 0
  /\ ops = 0
  /\ gesture = NoGesture
  /\ total = NoTotal

NextDrag ==
  \/ \E index \in ColIndices : dragStartStep(index)
  \/ \E index \in ColIndices : dragOverStep(index)

SpecDrag == InitDrag /\ [][NextDrag]_vars

\* ---------------------------------------------------------------- editing
\* tables the component holds: the initial one, the generated ones that
\* render, and these with a row or a column added or the first row deleted
BaseTables ==
  {InitialTable} \cup
  {TableFromPayload(d) : d \in {p \in Payloads : p.headers # NotArray /\ p.rows # NoRows}}
EditTables ==
  {t \in BaseTables \cup {addRowUpdater(t) : t \in BaseTables}
         \cup {addColumnUpdater(t) : t \in BaseTables}
         \cup {deleteRowUpdater(t, 0) : t \in BaseTables} : Renderable(t)}

InitEdit ==
  /\ tableData \in EditTables
  /\ isLoading = FALSE
  /\ productDescription = ""
  /\ draggedColumn = Null
  /\ requests = 0
  /\ ops = 0
  /\ gesture = NoGesture
  /\ total = NoTotal

NextEdit ==
  \/ \E rowIndex \in RowIndices, colIndex \in ColIndices, value \in CellTexts :
       updateCell(rowIndex, colIndex, value) /\ TableOp
  \/ \E rowIndex \in RowIndices, colIndex \in ColIndices, type \in CellTypes :
       updateCellType(rowIndex, colIndex, type) /\ TableOp

SpecEdit == InitEdit /\ [][NextEdit]_vars

\* --------------------------------------------------------------- fairness
\* the completion service answers or fails every call it is sent
FairSpec ==
  Spec /\ WF_vars(\E resp \in Responses : completion(resp) /\ NoTableOp)

\* ------------------------------------------------------------- properties
\* column k of a table as the code reads it: headers[k] and every row's
\* row[k]
Column(t, k) ==
  << ArrGet(t.headers, k, Undef, Hole),
     [r \in DOMAIN t.rows |-> ArrGet(t.rows[r], k, UndefCell, HoleCell)] >>

SameShape(t1, t2) ==
  /\ Len(t2.headers) = Len(t1.headers)
  /\ Len(t2.rows) = Len(t1.rows)
  /\ \A r \in DOMAIN t1.rows : Len(t2.rows[r]) = Len(t1.rows[r])

\* t2 holds the columns of t1, each as often
SameColumns(t1, t2) ==
  \A k \in 0..(Width(t1) - 1) :
    Cardinality({m \in 0..(Width(t2) - 1) : Column(t2, m) = Column(t1, k)})
      = Cardinality({m \in 0..(Width(t1) - 1) : Column(t1, m) = Column(t1, k)})

\* C1: in every reachable state every row of the table has exactly as
\* many cells as the table has headers.
C1_RowsMatchHeaders ==
  tableData.headers # NotArray =>
    \A r \in DOMAIN tableData.rows : Len(tableData.rows[r]) = Len(tableData.headers)

\* C2: the table has at least 2 columns in every reachable state.
C2_AtLeastTwoColumns ==
  tableData.headers # NotArray => Len(tableData.headers) >= 2

\* C3: no drag-over step changes column 0: its header and its cell in every
\* row are the same after any handleDragOver as before.
C3_ColumnZeroPinned ==
  [][(\E index \in ColIndices : handleDragOver(index))
       => Column(tableData', 0) = Column(tableData, 0)]_vars

\* a payload lacks a field generateComparison reads
MissingField(data) ==
  \/ data.headers = NotArray
  \/ data.rows = NoRows
  \/ \E k \in DOMAIN data.rows :
       \/ data.rows[k].feature = UndefStr \/ data.rows[k].type = Undef
       \/ data.rows[k].vendor1 = UndefStr \/ data.rows[k].vendor2 = UndefStr

\* the attempt fails: the service fails, the text is no JSON, or the
\* payload lacks an expected field
Failed(resp) ==
  \/ resp.tag \in {"reject", "malformed"}
  \/ resp.tag = "json" /\ MissingField(resp.data)

\* C4: a generation attempt that fails (empty description, service error,
\* text that is no JSON, payload missing an expected field) leaves the
\* table as it was and the loading flag false.
C4_FailedGenerationKeepsTable ==
  [][/\ (productDescription = "" /\ generateComparison)
          => (tableData' = tableData /\ isLoading' = FALSE)
     /\ \A resp \in Responses :
          (Failed(resp) /\ completion(resp))
            => (tableData' = tableData /\ isLoading' = FALSE)]_vars

\* C5: at most one completion-service call is awaited at any time, and the
\* loading flag is true whenever one is.
C5_OneRequestInFlight ==
  requests <= 1 /\ (requests >= 1 => isLoading)

\* C5 witness: a call is awaited, after the table was changed by a handler
C5_Witness == requests = 1 /\ isLoading /\ ops > 0

\* C6: once the loading flag is true it eventually becomes false again,
\* and it is never true with no call awaited.
C6_FlagReleased ==
  (isLoading ~> ~isLoading) /\ [](isLoading => requests > 0)

\* C6 witness: a call was made and answered with a payload, and the flag
\* is released
C6_Witness ==
  /\ ~isLoading /\ requests = 0
  /\ tableData.headers = <<"Feature", "Vendor 1", "Vendor 2">>

\* the rows whose cell at colIndex qualifies: kind number or currency and
\* a value that parses as a number
Qualifying(t, colIndex) ==
  {r \in DOMAIN t.rows :
     /\ t.rows[r][colIndex + 1].type \in {"number", "currency"}
     /\ ~parseFloat(t.rows[r][colIndex + 1].value).nan}

RECURSIVE SumOfCells(_, _, _)
SumOfCells(t, colIndex, R) ==
  IF R = {} THEN 0
  ELSE LET r == CHOOSE x \in R : TRUE
       IN parseFloat(t.rows[r][colIndex + 1].value).num
            + SumOfCells(t, colIndex, R \ {r})

\* C7: computeColumnTotal(colIndex) is null exactly when no cell of the
\* column qualifies; otherwise it is the sum of the qualifying cells, in
\* currency format if the first of them in row order has kind currency
\* and in plain number format otherwise.
C7_TotalOfQualifyingCells ==
  total.computed =>
    LET q == Qualifying(tableData, total.colIndex)
        first == CHOOSE r \in q : \A x \in q : r <= x
        sum == SumOfCells(tableData, total.colIndex, q)
    IN IF q = {} THEN ~total.result.shown
       ELSE /\ total.result.shown
            /\ total.result.text =
                 IF tableData.rows[first][total.colIndex + 1].type = "currency"
                 THEN FormatCurrency(sum) ELSE FormatNumber(sum)

\* the cells of t2 are those of t1, but for the field of the cell at
\* (rowIndex, colIndex), which is v
OnlyCellField(t1, t2, rowIndex, colIndex, field, v) ==
  /\ t2.headers = t1.headers
  /\ SameShape(t1, t2)
  /\ \A i \in DOMAIN t1.rows : \A j \in DOMAIN t1.rows[i] :
       IF i - 1 = rowIndex /\ j - 1 = colIndex
       THEN IF field = "value"
            THEN t2.rows[i][j].value = v /\ t2.rows[i][j].type = t1.rows[i][j].type
            ELSE t2.rows[i][j].type = v /\ t2.rows[i][j].value = t1.rows[i][j].value
       ELSE t2.rows[i][j] = t1.rows[i][j]

InRange(t, rowIndex, colIndex) ==
  /\ rowIndex >= 0 /\ rowIndex < Len(t.rows)
  /\ colIndex >= 0 /\ colIndex < Len(t.rows[rowIndex + 1])

\* C8: updateCell changes only the value of the cell at (row, col) and
\* updateCellType only its kind; headers, shape and every other cell stay,
\* and with row or col out of range the whole table stays.
C8_EditFrame ==
  [][/\ \A rowIndex \in RowIndices, colIndex \in ColIndices, value \in CellTexts :
          updateCell(rowIndex, colIndex, value) =>
            /\ OnlyCellField(tableData, tableData', rowIndex, colIndex, "value", value)
            /\ ~InRange(tableData, rowIndex, colIndex) => tableData' = tableData
     /\ \A rowIndex \in RowIndices, colIndex \in ColIndices, type \in CellTypes :
          updateCellType(rowIndex, colIndex, type) =>
            /\ OnlyCellField(tableData, tableData', rowIndex, colIndex, "type", type)
            /\ ~InRange(tableData, rowIndex, colIndex) => tableData' = tableData]_vars

\* C8 witness: a cell of another kind than text holds the value typed in
C8_Witness ==
  /\ Renderable(tableData)
  /\ \E i \in DOMAIN tableData.rows : \E j \in DOMAIN tableData.rows[i] :
       /\ tableData.rows[i][j].value \in CellTexts
       /\ tableData.rows[i][j].type \in {"number", "currency"}

\* the sequence with the element at position i moved to position j
MoveSeq(seq, i, j) ==
  LET rest == SubSeq(seq, 1, i) \o SubSeq(seq, i + 2, Len(seq))
  IN SubSeq(rest, 1, j) \o <<seq[i + 1]>> \o SubSeq(rest, j + 1, Len(rest))

MoveColumn(t, i, j) ==
  [headers |-> MoveSeq(t.headers, i, j),
   rows |-> [r \in DOMAIN t.rows |-> MoveSeq(t.rows[r], i, j)]]

\* C9: after handleDragStart(i) and a handleDragOver on each next column up
\* to j, the column that was at i is at j and the others keep their order.
C9_DragIsMove ==
  gesture.active =>
    tableData = MoveColumn(gesture.table, gesture.from, draggedColumn)

\* C9 witness: a column was dragged across two others, in a table with rows
C9_Witness ==
  /\ gesture.active
  /\ tableData.rows # <<>>
  /\ \/ draggedColumn >= gesture.from + 2
     \/ draggedColumn <= gesture.from - 2

\* C10: a handleDragOver step only permutes the columns: the table keeps
\* its shape and holds the same columns, header and cells together, as
\* before.
C10_DragOverPermutes ==
  [][(\E index \in ColIndices : handleDragOver(index))
       => SameShape(tableData, tableData') /\ SameColumns(tableData, tableData')]_vars

====
